---- MODULE Spec2Model ----
(***************************************************************************)
(* Model of TimetableManager (src/main.py): greedy, first-fit assignment   *)
(* of class sessions to time slots and rooms.                              *)
(*                                                                         *)
(* Python dictionaries are functions whose DOMAIN is the key set; a        *)
(* lookup d[k] with k outside DOMAIN d raises KeyError, which aborts the   *)
(* call in progress (pc = "error").  list(set(..) & set(..)) has no        *)
(* guaranteed order: every ordering of the intersection is possible.       *)
(***************************************************************************)
EXTENDS Integers, Sequences, FiniteSets, TLC

VARIABLES
    classes,                \* self.classes
    professors,             \* self.professors
    groups,                 \* self.groups
    time_slots,             \* self.time_slots
    rooms,                  \* self.rooms
    room_capacities,        \* the constructor argument room_capacities
    room_capacity,          \* self.room_capacity
    class_sizes,            \* self.class_sizes
    professor_preferences,  \* self.professor_preferences
    group_preferences,      \* self.group_preferences
    professor_schedule,     \* self.professor_schedule
    group_schedule,         \* self.group_schedule
    pc,                     \* "idle", "run" (inside generate_schedule), "done", "error"
    idx,                    \* position of the for-loop of generate_schedule in classes
    status,                 \* per class session: "Unassigned", "Assigned", "Rejected"
    placed,                 \* per class session: arguments of its assign_schedule call
    issues,                 \* per class session: the issues list of its provide_feedback call
    setCalls,               \* number of preference-setter calls made so far
    lastCall                \* the most recent public method call and its arguments

inputs == <<classes, professors, groups, time_slots, rooms, room_capacities,
            room_capacity, class_sizes>>
prefs == <<professor_preferences, group_preferences>>
schedules == <<professor_schedule, group_schedule>>
vars == <<inputs, prefs, schedules, pc, idx, status, placed, issues, setCalls, lastCall>>

-----------------------------------------------------------------------------
(* Bounds *)

MaxClasses == 2
MaxSlots == 2
MaxSetCalls == 2

-----------------------------------------------------------------------------
(* Program constants and the example data of src/main.py *)

DefaultCapacity == 30
DefaultSize == 20

Mon9 == "Mon 9:00-10:00"
Mon10 == "Mon 10:00-11:00"
Mon11 == "Mon 11:00-12:00"
Tue9 == "Tue 9:00-10:00"
Tue10 == "Tue 10:00-11:00"
Tue11 == "Tue 11:00-12:00"

ExampleRooms == <<"Room 101", "Room 102", "Room 103">>
ExampleCapacities == ("Room 101" :> 20) @@ ("Room 102" :> 50) @@ ("Room 103" :> 40)
ExampleClasses ==
    << [name |-> "Math", professor |-> "Prof. A", group |-> "Group 1", size |-> 25],
       [name |-> "Physics", professor |-> "Prof. B", group |-> "Group 2", size |-> 20],
       [name |-> "Chemistry", professor |-> "Prof. C", group |-> "Group 3", size |-> 35],
       [name |-> "Chemistry", professor |-> "Prof. C", group |-> "Group 3", size |-> 35],
       [name |-> "Chemistry", professor |-> "Prof. C", group |-> "Group 3", size |-> 35] >>
ExampleProfessors == <<"Prof. A", "Prof. B", "Prof. C">>
ExampleGroups == <<"Group 1", "Group 2", "Group 3">>
ExampleTimeSlots == <<Mon9, Mon10, Mon11, Tue9, Tue10, Tue11>>
ExampleProfAPrefs == <<Mon9, Tue10>>
ExampleGroup1Prefs == <<Mon9, Mon10>>

-----------------------------------------------------------------------------
(* Input domains of the bounded scenarios *)

NoCapacities == [given |-> FALSE, map |-> <<>>]
Given(m) == [given |-> TRUE, map |-> m]

SmallProfessors == <<"Prof. A", "Prof. B">>
SmallGroups == <<"Group 1", "Group 2">>
SmallRooms == <<"Room 101", "Room 102">>

\* class sessions: shared professors, shared groups, a shared name with two
\* sizes, an entry without size, a professor missing from the professor list
ClassPool ==
    { [name |-> "Math", professor |-> "Prof. A", group |-> "Group 1", size |-> 25],
      [name |-> "Math", professor |-> "Prof. B", group |-> "Group 1", size |-> 35],
      [name |-> "Physics", professor |-> "Prof. B", group |-> "Group 2"],
      [name |-> "Chemistry", professor |-> "Prof. A", group |-> "Group 2", size |-> 35],
      [name |-> "Chemistry", professor |-> "Prof. C", group |-> "Group 2", size |-> 35] }

CapacityArgs ==
    { NoCapacities,
      Given(("Room 101" :> 20) @@ ("Room 102" :> 50)),
      Given("Room 102" :> 50),
      Given("Room 101" :> 20) }

PrefLists == { <<>>, ExampleProfAPrefs, ExampleGroup1Prefs }

SeqsUpTo(S, n) == UNION { [1..k -> S] : k \in 0..n }

-----------------------------------------------------------------------------
(* __init__ *)

Call(op, owner, preferences) == [op |-> op, owner |-> owner, preferences |-> preferences]

cls_size(cls) == IF "size" \in DOMAIN cls THEN cls.size ELSE DefaultSize

Range(s) == { s[k] : k \in DOMAIN s }

\* last entry of a name wins, as in a dict comprehension
init_class_sizes(cs) ==
    [ n \in { cs[k].name : k \in DOMAIN cs } |->
        LET last == CHOOSE k \in DOMAIN cs :
                        /\ cs[k].name = n
                        /\ \A j \in DOMAIN cs : cs[j].name = n => j <= k
        IN cls_size(cs[last]) ]

\* variant: the supplied mapping is ignored
init_room_capacity_always_default(arg, rs) ==
    [ r \in Range(rs) |-> DefaultCapacity ]

\* room_capacities if room_capacities else {room: 30 for room in rooms}
init_room_capacity(arg, rs) ==
    IF arg.given /\ DOMAIN arg.map # {}
    THEN arg.map
    ELSE [ r \in Range(rs) |-> DefaultCapacity ]

Construct(cs, ps, gs, ts, rs, caps) ==
    /\ classes = cs
    /\ professors = ps
    /\ groups = gs
    /\ time_slots = ts
    /\ rooms = rs
    /\ room_capacities = caps
    /\ room_capacity = init_room_capacity(caps, rs)
    /\ class_sizes = init_class_sizes(cs)
    /\ professor_preferences = [ p \in Range(ps) |-> <<>> ]
    /\ group_preferences = [ g \in Range(gs) |-> <<>> ]
    /\ professor_schedule = [ p \in Range(ps) |-> <<>> ]
    /\ group_schedule = [ g \in Range(gs) |-> <<>> ]
    /\ pc = "idle"
    /\ idx = 1
    /\ status = [ k \in DOMAIN cs |-> "Unassigned" ]
    /\ placed = [ k \in DOMAIN cs |-> [time_slot |-> "-", room |-> "-"] ]
    /\ issues = [ k \in DOMAIN cs |-> <<>> ]
    /\ setCalls = 0
    /\ lastCall = Call("__init__", "-", <<>>)

InitSmall ==
    \E cs \in SeqsUpTo(ClassPool, MaxClasses), n \in 1..MaxSlots, caps \in CapacityArgs :
        Construct(cs, SmallProfessors, SmallGroups, SubSeq(ExampleTimeSlots, 1, n),
                  SmallRooms, caps)

InitExample ==
    Construct(ExampleClasses, ExampleProfessors, ExampleGroups, ExampleTimeSlots,
              ExampleRooms, Given(ExampleCapacities))

Init == InitSmall \/ InitExample

-----------------------------------------------------------------------------
(* set_professor_preferences, set_group_preferences *)

OwnerIds == Range(ExampleProfessors)
GroupIds == Range(ExampleGroups)

\* variant: the membership test is missing, the entry is always written
set_professor_preferences_unguarded(professor, preferences) ==
    /\ pc \in {"idle", "done"}
    /\ setCalls < MaxSetCalls
    /\ setCalls' = setCalls + 1
    /\ lastCall' = Call("set_professor_preferences", professor, preferences)
    /\ professor_preferences' =
         [ q \in DOMAIN professor_preferences \cup {professor} |->
             IF q = professor THEN preferences ELSE professor_preferences[q] ]
    /\ UNCHANGED <<inputs, group_preferences, schedules, pc, idx, status, placed, issues>>

set_professor_preferences(professor, preferences) ==
    /\ pc \in {"idle", "done"}
    /\ setCalls < MaxSetCalls
    /\ setCalls' = setCalls + 1
    /\ lastCall' = Call("set_professor_preferences", professor, preferences)
    /\ professor_preferences' =
         IF professor \in DOMAIN professor_preferences
         THEN [professor_preferences EXCEPT ![professor] = preferences]
         ELSE professor_preferences
    /\ UNCHANGED <<inputs, group_preferences, schedules, pc, idx, status, placed, issues>>

set_group_preferences(group, preferences) ==
    /\ pc \in {"idle", "done"}
    /\ setCalls < MaxSetCalls
    /\ setCalls' = setCalls + 1
    /\ lastCall' = Call("set_group_preferences", group, preferences)
    /\ group_preferences' =
         IF group \in DOMAIN group_preferences
         THEN [group_preferences EXCEPT ![group] = preferences]
         ELSE group_preferences
    /\ UNCHANGED <<inputs, professor_preferences, schedules, pc, idx, status, placed, issues>>

-----------------------------------------------------------------------------
(* get_preferred_slots *)

\* dict.get(key, [])
GetOrEmpty(d, k) == IF k \in DOMAIN d THEN d[k] ELSE <<>>

PreferredSet(cls) ==
    Range(GetOrEmpty(professor_preferences, cls.professor))
        \cap Range(GetOrEmpty(group_preferences, cls.group))

Orderings(S) ==
    { s \in [1..Cardinality(S) -> S] : \A a, b \in DOMAIN s : s[a] = s[b] => a = b }

\* variant: a list comprehension over the professor's list, which keeps the
\* duplicates of that list
get_preferred_slots_comprehension(cls) ==
    LET g == GetOrEmpty(group_preferences, cls.group)
        InGroup(t) == t \in Range(g)
    IN { SelectSeq(GetOrEmpty(professor_preferences, cls.professor), InGroup) }

\* every list that list(set & set) can return
get_preferred_slots(cls) == Orderings(PreferredSet(cls))

-----------------------------------------------------------------------------
(* is_valid: "True", "False", or "KeyError" when a lookup fails *)

\* variant: the professor's occupancy is not tested
is_valid_ignoring_professor(cls, time_slot, room) ==
    IF cls.professor \notin DOMAIN professor_schedule THEN "KeyError"
    ELSE IF cls.group \notin DOMAIN group_schedule THEN "KeyError"
    ELSE IF time_slot \in DOMAIN group_schedule[cls.group] THEN "False"
    ELSE IF room \notin DOMAIN room_capacity THEN "KeyError"
    ELSE IF class_sizes[cls.name] <= room_capacity[room] THEN "True"
    ELSE "False"

\* variant: the group's occupancy is not tested
is_valid_ignoring_group(cls, time_slot, room) ==
    IF cls.professor \notin DOMAIN professor_schedule THEN "KeyError"
    ELSE IF time_slot \in DOMAIN professor_schedule[cls.professor] THEN "False"
    ELSE IF cls.group \notin DOMAIN group_schedule THEN "KeyError"
    ELSE IF room \notin DOMAIN room_capacity THEN "KeyError"
    ELSE IF class_sizes[cls.name] <= room_capacity[room] THEN "True"
    ELSE "False"

is_valid(cls, time_slot, room) ==
    IF cls.professor \notin DOMAIN professor_schedule THEN "KeyError"
    ELSE IF time_slot \in DOMAIN professor_schedule[cls.professor] THEN "False"
    ELSE IF cls.group \notin DOMAIN group_schedule THEN "KeyError"
    ELSE IF time_slot \in DOMAIN group_schedule[cls.group] THEN "False"
    ELSE IF room \notin DOMAIN room_capacity THEN "KeyError"
    ELSE IF class_sizes[cls.name] <= room_capacity[room] THEN "True"
    ELSE "False"

-----------------------------------------------------------------------------
(* the search loops of generate_schedule *)

NoneFound == [kind |-> "none", time_slot |-> "-", room |-> "-"]
Raised == [kind |-> "error", time_slot |-> "-", room |-> "-"]

RECURSIVE Scan(_, _, _, _)
Scan(cls, candidates, s, r) ==
    IF s > Len(candidates) THEN NoneFound
    ELSE IF r > Len(rooms) THEN Scan(cls, candidates, s + 1, 1)
    ELSE LET v == is_valid(cls, candidates[s], rooms[r]) IN
         IF v = "KeyError" THEN Raised
         ELSE IF v = "True"
              THEN [kind |-> "found", time_slot |-> candidates[s], room |-> rooms[r]]
              ELSE Scan(cls, candidates, s, r + 1)

\* for time_slot in preferred_slots + self.time_slots: for room in self.rooms
Search(cls, preferred_slots) == Scan(cls, preferred_slots \o time_slots, 1, 1)

-----------------------------------------------------------------------------
(* provide_feedback *)

ProfessorIssue == "No available time slots for professor"
GroupIssue == "No available time slots for group"
RoomIssue == "No rooms with sufficient capacity for class"

\* all(time_slot in schedule[owner] for time_slot in self.time_slots)
AllSlotsTaken(schedule, owner) ==
    IF time_slots = <<>> THEN "True"
    ELSE IF owner \notin DOMAIN schedule THEN "KeyError"
    ELSE IF \A k \in DOMAIN time_slots : time_slots[k] \in DOMAIN schedule[owner]
         THEN "True" ELSE "False"

\* all(class_size > self.room_capacity[room] for room in self.rooms)
RECURSIVE AllRoomsTooSmall(_, _)
AllRoomsTooSmall(class_size, r) ==
    IF r > Len(rooms) THEN "True"
    ELSE IF rooms[r] \notin DOMAIN room_capacity THEN "KeyError"
    ELSE IF class_size > room_capacity[rooms[r]] THEN AllRoomsTooSmall(class_size, r + 1)
    ELSE "False"

Feedback(cls) ==
    LET a == AllSlotsTaken(professor_schedule, cls.professor)
        b == AllSlotsTaken(group_schedule, cls.group)
        c == AllRoomsTooSmall(class_sizes[cls.name], 1)
    IN IF "KeyError" \in {a, b, c}
       THEN [raised |-> TRUE, issues |-> <<>>]
       ELSE [raised |-> FALSE,
             issues |-> (IF a = "True" THEN <<ProfessorIssue>> ELSE <<>>)
                        \o (IF b = "True" THEN <<GroupIssue>> ELSE <<>>)
                        \o (IF c = "True" THEN <<RoomIssue>> ELSE <<>>)]

-----------------------------------------------------------------------------
(* generate_schedule *)

\* d[k] = v
Put(d, k, v) == [ x \in DOMAIN d \cup {k} |-> IF x = k THEN v ELSE d[x] ]

generate_schedule ==
    /\ pc = "idle"
    /\ pc' = "run"
    /\ idx' = 1
    /\ lastCall' = Call("generate_schedule", "-", <<>>)
    /\ UNCHANGED <<inputs, prefs, schedules, status, placed, issues, setCalls>>

InLoop == pc = "run" /\ idx <= Len(classes)

\* one iteration that finds a valid (time_slot, room) and calls assign_schedule
assign_schedule ==
    /\ InLoop
    /\ LET cls == classes[idx] IN
       \E preferred_slots \in get_preferred_slots(cls) :
         LET hit == Search(cls, preferred_slots) IN
         /\ hit.kind = "found"
         /\ professor_schedule' =
              [professor_schedule EXCEPT ![cls.professor] =
                  Put(@, hit.time_slot,
                      [class |-> cls.name, room |-> hit.room, group |-> cls.group])]
         /\ group_schedule' =
              [group_schedule EXCEPT ![cls.group] =
                  Put(@, hit.time_slot,
                      [class |-> cls.name, room |-> hit.room, professor |-> cls.professor])]
         /\ status' = [status EXCEPT ![idx] = "Assigned"]
         /\ placed' = [placed EXCEPT ![idx] = [time_slot |-> hit.time_slot, room |-> hit.room]]
    /\ idx' = idx + 1
    /\ UNCHANGED <<inputs, prefs, pc, issues, setCalls, lastCall>>

\* variant: probing a slot inserts it into the professor's schedule (as a
\* setdefault-style lookup would), so the queries leave entries behind
provide_feedback_probing_inserts ==
    /\ InLoop
    /\ LET cls == classes[idx] IN
       /\ \E preferred_slots \in get_preferred_slots(cls) :
            Search(cls, preferred_slots).kind = "none"
       /\ ~Feedback(cls).raised
       /\ issues' = [issues EXCEPT ![idx] = Feedback(cls).issues]
       /\ professor_schedule' =
            [professor_schedule EXCEPT ![cls.professor] =
                [ t \in DOMAIN @ \cup Range(time_slots) |->
                    IF t \in DOMAIN @ THEN @[t]
                    ELSE [class |-> "-", room |-> "-", group |-> "-"] ]]
    /\ status' = [status EXCEPT ![idx] = "Rejected"]
    /\ idx' = idx + 1
    /\ UNCHANGED <<inputs, prefs, group_schedule, pc, placed, setCalls, lastCall>>

\* one iteration that finds nothing and calls provide_feedback
provide_feedback ==
    /\ InLoop
    /\ LET cls == classes[idx] IN
       /\ \E preferred_slots \in get_preferred_slots(cls) :
            Search(cls, preferred_slots).kind = "none"
       /\ ~Feedback(cls).raised
       /\ issues' = [issues EXCEPT ![idx] = Feedback(cls).issues]
    /\ status' = [status EXCEPT ![idx] = "Rejected"]
    /\ idx' = idx + 1
    /\ UNCHANGED <<inputs, prefs, schedules, pc, placed, setCalls, lastCall>>

\* one iteration in which a dictionary lookup raises KeyError
raise_KeyError ==
    /\ InLoop
    /\ LET cls == classes[idx] IN
       \E preferred_slots \in get_preferred_slots(cls) :
         LET hit == Search(cls, preferred_slots) IN
         \/ hit.kind = "error"
         \/ hit.kind = "none" /\ Feedback(cls).raised
    /\ pc' = "error"
    /\ UNCHANGED <<inputs, prefs, schedules, idx, status, placed, issues, setCalls, lastCall>>

\* the for-loop is exhausted and generate_schedule returns
return_generate_schedule ==
    /\ pc = "run"
    /\ idx > Len(classes)
    /\ pc' = "done"
    /\ UNCHANGED <<inputs, prefs, schedules, idx, status, placed, issues, setCalls, lastCall>>

-----------------------------------------------------------------------------

Next ==
    \/ \E p \in OwnerIds, l \in PrefLists : set_professor_preferences(p, l)
    \/ \E g \in GroupIds, l \in PrefLists : set_group_preferences(g, l)
    \/ generate_schedule
    \/ assign_schedule
    \/ provide_feedback
    \/ raise_KeyError
    \/ return_generate_schedule

Spec == Init /\ [][Next]_vars

-----------------------------------------------------------------------------
(* Vocabulary of the properties *)

Assigned(k) == status[k] = "Assigned"

OwnersKnown ==
    \A k \in DOMAIN classes :
        /\ classes[k].professor \in Range(professors)
        /\ classes[k].group \in Range(groups)

\* generate_schedule has returned and no setter was called since
Finished == pc = "done" /\ lastCall.op = "generate_schedule"

SlotFree(cls, t) ==
    /\ cls.professor \in DOMAIN professor_schedule
    /\ cls.group \in DOMAIN group_schedule
    /\ t \notin DOMAIN professor_schedule[cls.professor]
    /\ t \notin DOMAIN group_schedule[cls.group]

FeasiblePreferred(cls) ==
    \E t \in PreferredSet(cls), r \in Range(rooms) : is_valid(cls, t, r) = "True"

Records(schedule) ==
    UNION { { <<o, t>> : t \in DOMAIN schedule[o] } : o \in DOMAIN schedule }

-----------------------------------------------------------------------------
\* C1: no two distinct assigned class sessions that share a professor, or that
\* share a group, are assigned the same time slot.
C1_NoDoubleBooking ==
    \A a, b \in DOMAIN classes :
        (a # b /\ Assigned(a) /\ Assigned(b)
              /\ placed[a].time_slot = placed[b].time_slot)
        => /\ classes[a].professor # classes[b].professor
           /\ classes[a].group # classes[b].group

\* two sessions of one professor and two sessions of one group are assigned
C1_Witness ==
    /\ \E a, b \in DOMAIN classes :
         a # b /\ Assigned(a) /\ Assigned(b)
               /\ classes[a].professor = classes[b].professor
    /\ \E a, b \in DOMAIN classes :
         a # b /\ Assigned(a) /\ Assigned(b)
               /\ classes[a].group = classes[b].group

\* C2: for every assigned class session, the size given in the session's own
\* entry (20 if it gives none) is at most the capacity of the room it was given.
C2_CapacityRespected ==
    \A k \in DOMAIN classes :
        Assigned(k) =>
            /\ placed[k].room \in DOMAIN room_capacity
            /\ cls_size(classes[k]) <= room_capacity[placed[k].room]

\* C3: when a class is processed while some common preferred slot is feasible,
\* the class is assigned, and to a common preferred slot.
C3_PreferencePriority ==
    [][ (InLoop /\ FeasiblePreferred(classes[idx]))
        => /\ status'[idx] = "Assigned"
           /\ placed'[idx].time_slot \in PreferredSet(classes[idx]) ]_vars

\* the reference scenario of src/main.py, preferences included
ExampleSetUp ==
    /\ classes = ExampleClasses
    /\ rooms = ExampleRooms
    /\ professors = ExampleProfessors
    /\ groups = ExampleGroups
    /\ room_capacities = Given(ExampleCapacities)
    /\ time_slots = ExampleTimeSlots
    /\ professor_preferences =
         [ p \in Range(ExampleProfessors) |->
             IF p = "Prof. A" THEN ExampleProfAPrefs ELSE <<>> ]
    /\ group_preferences =
         [ g \in Range(ExampleGroups) |->
             IF g = "Group 1" THEN ExampleGroup1Prefs ELSE <<>> ]

ChemistrySections == { k \in DOMAIN classes : classes[k].name = "Chemistry" }

\* C4 (as claimed): in the reference scenario at most 2 of the 3 Chemistry
\* sections are seated and the third is rejected with a professor-exhausted
\* or capacity reason.
C4_ReferenceScenario_AsClaimed ==
    (ExampleSetUp /\ Finished) =>
        /\ Cardinality({ k \in ChemistrySections : Assigned(k) }) <= 2
        /\ status[5] = "Rejected"
        /\ \/ ProfessorIssue \in Range(issues[5])
           \/ RoomIssue \in Range(issues[5])

\* C4 (amended): in the reference scenario all 3 Chemistry sections are
\* seated, in Room 102 at the first three slots, and no class is rejected.
C4_ReferenceScenario ==
    (ExampleSetUp /\ Finished) =>
        /\ \A k \in DOMAIN classes : Assigned(k)
        /\ placed[3] = [time_slot |-> Mon9, room |-> "Room 102"]
        /\ placed[4] = [time_slot |-> Mon10, room |-> "Room 102"]
        /\ placed[5] = [time_slot |-> Mon11, room |-> "Room 102"]

C4_Witness == ExampleSetUp /\ Finished /\ Assigned(5)

AbsentRooms ==
    { r \in Range(rooms) : ~room_capacities.given \/ r \notin DOMAIN room_capacities.map }

\* C5: while generate_schedule runs, the feasibility check of the class being
\* processed counts a room absent from the supplied capacity mapping as
\* capacity 30, and a run over such rooms raises no error.
C5_DefaultRoomCapacity ==
    /\ InLoop =>
         \A t \in Range(time_slots), r \in AbsentRooms :
            SlotFree(classes[idx], t) =>
               is_valid(classes[idx], t, r) =
                   (IF class_sizes[classes[idx].name] <= DefaultCapacity
                    THEN "True" ELSE "False")
    /\ (AbsentRooms # {} /\ OwnersKnown) => pc # "error"

\* C6: with all owners known, the run never aborts, classes are processed in
\* input order, each class leaves Unassigned exactly when it is processed, a
\* terminal state is never left, and the run returns only after the last class.
C6_SoftFailure ==
    /\ [](OwnersKnown =>
            /\ pc # "error"
            /\ \A k \in DOMAIN classes : (status[k] # "Unassigned") <=> (k < idx)
            /\ pc = "done" => idx = Len(classes) + 1)
    /\ [][ \A k \in DOMAIN classes :
             status[k] # "Unassigned" => status'[k] = status[k] ]_vars

ExpectedIssues(cls) ==
    (IF \A t \in Range(time_slots) : t \in DOMAIN professor_schedule[cls.professor]
     THEN <<ProfessorIssue>> ELSE <<>>)
    \o (IF \A t \in Range(time_slots) : t \in DOMAIN group_schedule[cls.group]
        THEN <<GroupIssue>> ELSE <<>>)
    \o (IF \A r \in Range(rooms) :
              r \in DOMAIN room_capacity /\ cls_size(cls) > room_capacity[r]
        THEN <<RoomIssue>> ELSE <<>>)

\* C7: the reason list of a rejected class names, in this order, exactly the
\* conditions that hold: professor exhausted, group exhausted, the class's
\* size exceeds every room's capacity.  (Stated for the class rejected last:
\* the schedules are still those its provide_feedback call saw.)
C7_DiagnosisExact ==
    (idx > 1 /\ status[idx - 1] = "Rejected")
        => issues[idx - 1] = ExpectedIssues(classes[idx - 1])

ExhaustedBefore(k) ==
    Range(time_slots) \subseteq
        { placed[j].time_slot :
            j \in { i \in 1..(k - 1) :
                      Assigned(i) /\ classes[i].professor = classes[k].professor } }

\* C8: a class processed after its professor has a record at every slot of the
\* universe is rejected with the professor-exhausted reason.
C8_ExhaustiveDiagnosis ==
    \A k \in DOMAIN classes :
        (k < idx /\ ExhaustedBefore(k))
            => /\ status[k] = "Rejected"
               /\ ProfessorIssue \in Range(issues[k])

ProfessorSetterEffect(professor, preferences) ==
    /\ pc' = pc
    /\ UNCHANGED <<inputs, schedules, status, group_preferences>>
    /\ professor_preferences' =
         IF professor \in Range(professors)
         THEN [ q \in Range(professors) |->
                  IF q = professor THEN preferences ELSE professor_preferences[q] ]
         ELSE professor_preferences

GroupSetterEffect(group, preferences) ==
    /\ pc' = pc
    /\ UNCHANGED <<inputs, schedules, status, professor_preferences>>
    /\ group_preferences' =
         IF group \in Range(groups)
         THEN [ q \in Range(groups) |->
                  IF q = group THEN preferences ELSE group_preferences[q] ]
         ELSE group_preferences

\* C9: a setter call for an owner of the owner list replaces that owner's
\* preference list and changes nothing else; for an owner that is not in the
\* list it changes no preference and no schedule; it raises no error.
C9_PreferenceSetters ==
    [][ (setCalls' # setCalls) =>
          /\ lastCall'.op \in {"set_professor_preferences", "set_group_preferences"}
          /\ lastCall'.op = "set_professor_preferences" =>
               ProfessorSetterEffect(lastCall'.owner, lastCall'.preferences)
          /\ lastCall'.op = "set_group_preferences" =>
               GroupSetterEffect(lastCall'.owner, lastCall'.preferences) ]_vars

\* after a run that assigned a class, and after a listed group has had its list
\* replaced, a setter is called for a professor that is not in the list
C9_Witness ==
    /\ pc = "done"
    /\ lastCall.op = "set_professor_preferences"
    /\ lastCall.owner \notin Range(professors)
    /\ lastCall.preferences # <<>>
    /\ \E g \in DOMAIN group_preferences : group_preferences[g] # <<>>
    /\ Records(professor_schedule) # {}

AssignStepGrowsByOne ==
    (InLoop /\ status'[idx] = "Assigned") =>
        /\ Records(professor_schedule') \ Records(professor_schedule)
             = { <<classes[idx].professor, placed'[idx].time_slot>> }
        /\ Records(group_schedule') \ Records(group_schedule)
             = { <<classes[idx].group, placed'[idx].time_slot>> }

RecordsKept ==
    /\ \A rec \in Records(professor_schedule) :
         /\ rec \in Records(professor_schedule')
         /\ professor_schedule'[rec[1]][rec[2]] = professor_schedule[rec[1]][rec[2]]
    /\ \A rec \in Records(group_schedule) :
         /\ rec \in Records(group_schedule')
         /\ group_schedule'[rec[1]][rec[2]] = group_schedule[rec[1]][rec[2]]

\* C10: an assign_schedule call adds exactly one record for the class's
\* professor and one for its group and nothing else; no record is ever removed
\* or overwritten; at the end there are as many professor-side records as
\* group-side records as Assigned classes.
C10_MonotonicSchedule ==
    /\ [][AssignStepGrowsByOne /\ RecordsKept]_vars
    /\ [](pc = "done" =>
            /\ Cardinality(Records(professor_schedule))
                 = Cardinality({ k \in DOMAIN classes : Assigned(k) })
            /\ Cardinality(Records(group_schedule))
                 = Cardinality({ k \in DOMAIN classes : Assigned(k) }))

\* a finished run that assigned two classes
C10_Witness ==
    pc = "done" /\ Cardinality({ k \in DOMAIN classes : Assigned(k) }) >= 2

-----------------------------------------------------------------------------
\* C11: the queries change nothing: an iteration of generate_schedule that
\* does not assign its class (its is_valid calls all fail, provide_feedback
\* runs, or a lookup raises) leaves both schedules and both preference
\* mappings as they were, and no iteration changes a preference mapping.
C11_QueriesArePure ==
    [][ InLoop =>
          /\ UNCHANGED prefs
          /\ status'[idx] # "Assigned" => UNCHANGED schedules ]_vars

\* a class has just been rejected while the schedules hold a record and the
\* class's professor still has a free slot
C11_Witness ==
    /\ idx > 1
    /\ status[idx - 1] = "Rejected"
    /\ Records(professor_schedule) # {}
    /\ \E t \in Range(time_slots) :
         t \notin DOMAIN professor_schedule[classes[idx - 1].professor]

-----------------------------------------------------------------------------
FitsRoom(size, j) ==
    rooms[j] \in DOMAIN room_capacity /\ size <= room_capacity[rooms[j]]

\* the first room of the room list, in list order, that holds `size`
IsFirstFittingRoom(size, room) ==
    \E j \in DOMAIN rooms :
        /\ rooms[j] = room
        /\ FitsRoom(size, j)
        /\ \A i \in 1..(j - 1) : ~FitsRoom(size, i)

\* the first slot of `candidates` at which both owners of cls are free
IsFirstFreeSlot(cls, candidates, t) ==
    \E f \in DOMAIN candidates :
        /\ candidates[f] = t
        /\ SlotFree(cls, t)
        /\ \A i \in 1..(f - 1) : ~SlotFree(cls, candidates[i])

\* C12: an assigned class gets the first slot in candidate order (common
\* preferred slots in the order returned, then the universe in input order)
\* at which its professor and its group are both free, and the first room in
\* room-list order whose capacity is at least the class's size.
C12_FirstFit ==
    [][ (InLoop /\ status'[idx] = "Assigned") =>
          /\ \E preferred_slots \in get_preferred_slots(classes[idx]) :
               IsFirstFreeSlot(classes[idx], preferred_slots \o time_slots,
                               placed'[idx].time_slot)
          /\ IsFirstFittingRoom(cls_size(classes[idx]), placed'[idx].room) ]_vars

-----------------------------------------------------------------------------
\* is_valid is false for every pair of a candidate slot and a room
NothingValid(cls) ==
    \A t \in PreferredSet(cls) \cup Range(time_slots), r \in Range(rooms) :
        is_valid(cls, t, r) = "False"

-----------------------------------------------------------------------------
(* The preference store on its own: setter calls with lists that repeat     *)
(* slots and name slots outside the universe, then get_preferred_slots.     *)

WidePrefLists ==
    { <<>>, <<Mon9, Mon9>>, <<Mon10, Mon9, Mon10>>, <<Tue10, Mon9>>, <<Tue10>> }

InitPrefs ==
    \E cs \in [1..1 -> ClassPool] :
        Construct(cs, SmallProfessors, SmallGroups, SubSeq(ExampleTimeSlots, 1, 2),
                  SmallRooms, NoCapacities)

NextPrefs ==
    \/ \E p \in OwnerIds, l \in WidePrefLists : set_professor_preferences(p, l)
    \/ \E g \in GroupIds, l \in WidePrefLists : set_group_preferences(g, l)

SpecPrefs == InitPrefs /\ [][NextPrefs]_vars

Occurs(t, l) == \E i \in 1..Len(l) : l[i] = t

PreferenceListOf(preferences, owners, owner) ==
    IF Occurs(owner, owners) THEN preferences[owner] ELSE <<>>

\* C14: every list get_preferred_slots can return has no duplicates and holds
\* exactly the slots that occur in both the professor's and the group's
\* preference list, an owner without an entry counting as an empty list.
C14_PreferredIsIntersection ==
    \A k \in DOMAIN classes :
        LET cls == classes[k]
            pl == PreferenceListOf(professor_preferences, professors, cls.professor)
            gl == PreferenceListOf(group_preferences, groups, cls.group)
        IN /\ get_preferred_slots(cls) # {}
           /\ \A L \in get_preferred_slots(cls) :
                /\ \A i, j \in 1..Len(L) : L[i] = L[j] => i = j
                /\ \A t \in Range(ExampleTimeSlots) :
                     Occurs(t, L) <=> (Occurs(t, pl) /\ Occurs(t, gl))
                /\ \A i \in 1..Len(L) : Occurs(L[i], pl) /\ Occurs(L[i], gl)
                /\ (pl = <<>> \/ gl = <<>>) => L = <<>>

\* both lists of a class repeat slots and share two slots, one of them listed
\* twice by the professor
C14_Witness ==
    \E k \in DOMAIN classes :
        /\ classes[k].professor \in DOMAIN professor_preferences
        /\ classes[k].group \in DOMAIN group_preferences
        /\ professor_preferences[classes[k].professor] = <<Mon10, Mon9, Mon10>>
        /\ group_preferences[classes[k].group] = <<Mon10, Mon9, Mon10>>
        /\ Cardinality(PreferredSet(classes[k])) = 2

-----------------------------------------------------------------------------
\* C15: every time slot that keys an occupancy record, of a professor or of a
\* group, is a slot of the time-slot universe.
C15_SlotsInsideUniverse ==
    /\ \A rec \in Records(professor_schedule) : rec[2] \in Range(time_slots)
    /\ \A rec \in Records(group_schedule) : rec[2] \in Range(time_slots)

\* C16: professor p has a record at slot t with class c, room r and group g
\* exactly when group g has a record at slot t with class c, room r and
\* professor p.
C16_SchedulesMirror ==
    /\ \A rec \in Records(professor_schedule) :
         LET p == rec[1]
             t == rec[2]
             e == professor_schedule[p][t]
         IN /\ <<e.group, t>> \in Records(group_schedule)
            /\ group_schedule[e.group][t]
                 = [class |-> e.class, room |-> e.room, professor |-> p]
    /\ \A rec \in Records(group_schedule) :
         LET g == rec[1]
             t == rec[2]
             e == group_schedule[g][t]
         IN /\ <<e.professor, t>> \in Records(professor_schedule)
            /\ professor_schedule[e.professor][t]
                 = [class |-> e.class, room |-> e.room, group |-> g]

\* one professor holds records for two different groups
C16_Witness ==
    \E p \in DOMAIN professor_schedule :
        \E t, u \in DOMAIN professor_schedule[p] :
            professor_schedule[p][t].group # professor_schedule[p][u].group

\* C17: two occupancy records of different professors, or of different
\* groups, at the same time slot never name the same room.
C17_NoRoomDoubleBooking ==
    /\ \A a, b \in Records(professor_schedule) :
         (a[1] # b[1] /\ a[2] = b[2])
            => professor_schedule[a[1]][a[2]].room # professor_schedule[b[1]][b[2]].room
    /\ \A a, b \in Records(group_schedule) :
         (a[1] # b[1] /\ a[2] = b[2])
            => group_schedule[a[1]][a[2]].room # group_schedule[b[1]][b[2]].room

====
